---------------------------- MODULE Spec2Model ----------------------------
(***************************************************************************)
(* A model of mini-excel: the scanner (src/src/scanning/mod.rs), the       *)
(* recursive-descent parser, the column codec, the expression evaluator    *)
(* and the driver Parser::parse_file (src/src/parsing/mod.rs).             *)
(*                                                                         *)
(* Text is a sequence of one-character strings.  An f32 is modelled by an  *)
(* exact rational <<n, d>> extended with the IEEE special values (signed   *)
(* zero, the infinities, NaN); rounding of f32 arithmetic is not modelled, *)
(* so the model is exact for the small integers and halves it computes on. *)
(* A panic ends the run: `status` then names the kind of the error.        *)
(***************************************************************************)
EXTENDS Integers, Sequences, FiniteSets, TLC

VARIABLES
    input,        \* file_content, the text handed to parse_file
    expr_cells,   \* the formula table: CellIndex -> formula text
    value_cells,  \* the results table: CellIndex -> Cell::Value
    pending,      \* keys of expr_cells the top-level loop has not visited
    frames,       \* the call stack of Expression::evaluate activations
    visiting,     \* the VisitingList of the running top-level evaluation
    status,       \* "init", "running", "done", or the kind of the panic
    errinfo,      \* the message of the panic (the path, for a cycle)
    output,       \* the rendered cells parse_file returns, <<>> before
    evaluations,  \* history: per formula cell, the times it was parsed and evaluated
    writes,       \* history: per formula cell, the inserts into value_cells
    topOrder,     \* history: the keys in the order the top-level loop met them
    arg,          \* codec specification: the argument of the codec call
    res           \* codec specification: <<>> or <<result>>

vars == <<input, expr_cells, value_cells, pending, frames, visiting, status,
          errinfo, output, evaluations, writes, topOrder, arg, res>>

-----------------------------------------------------------------------------
(* Bounds of the model.                                                    *)

\* Number of fields of the one-line reference grids.
Width == 3
\* Longest arithmetic formula text, in characters.
MaxArithLen == 5
\* Most arguments of a builtin call.
MaxArgs == 3
\* Largest column index given to the codec.
MaxIndex == 120
\* Longest column label given to the codec.
MaxLabelLen == 2

-----------------------------------------------------------------------------
(* Characters.                                                             *)

DigitChars == <<"0", "1", "2", "3", "4", "5", "6", "7", "8", "9">>
UpperChars == <<"A", "B", "C", "D", "E", "F", "G", "H", "I", "J", "K", "L", "M",
                "N", "O", "P", "Q", "R", "S", "T", "U", "V", "W", "X", "Y", "Z">>
LowerChars == <<"a", "b", "c", "d", "e", "f", "g", "h", "i", "j", "k", "l", "m",
                "n", "o", "p", "q", "r", "s", "t", "u", "v", "w", "x", "y", "z">>

Range(s) == {s[i] : i \in 1..Len(s)}

is_number(c) == c \in Range(DigitChars)

is_alpha(c) == c \in Range(LowerChars) \/ c \in Range(UpperChars)

DigitVal(c) == (CHOOSE i \in 1..10 : DigitChars[i] = c) - 1

\* char::to_uppercase / to_ascii_lowercase on one character
ToUpper(c) == IF c \in Range(LowerChars)
              THEN UpperChars[CHOOSE i \in 1..26 : LowerChars[i] = c] ELSE c

ToLower(c) == IF c \in Range(UpperChars)
              THEN LowerChars[CHOOSE i \in 1..26 : UpperChars[i] = c] ELSE c

LowerText(s) == [i \in 1..Len(s) |-> ToLower(s[i])]

\* str::parse::<usize> of a run of digits
RECURSIVE ParseUsize(_)
ParseUsize(s) == IF s = <<>> THEN 0
                 ELSE 10 * ParseUsize(SubSeq(s, 1, Len(s) - 1)) + DigitVal(s[Len(s)])

\* usize::to_string
RECURSIVE UsizeToString(_)
UsizeToString(n) == IF n < 10 THEN <<DigitChars[n + 1]>>
                    ELSE UsizeToString(n \div 10) \o <<DigitChars[(n % 10) + 1]>>

-----------------------------------------------------------------------------
(* f32 values.  <<n, d>> with d > 0 and gcd(n, d) = 1 is n/d; <<0, 1>> and *)
(* <<0, -1>> are +0.0 and -0.0; <<1, 0>> and <<-1, 0>> the infinities;     *)
(* <<0, 0>> is NaN.                                                        *)

Abs(x) == IF x < 0 THEN -x ELSE x

RECURSIVE Gcd(_, _)
Gcd(a, b) == IF b = 0 THEN a ELSE Gcd(b, a % b)

NaN == <<0, 0>>
PosZero == <<0, 1>>
FInt(k) == IF k = 0 THEN PosZero ELSE <<k, 1>>

IsNaN(x) == x = NaN
IsInf(x) == x[2] = 0 /\ x[1] # 0
IsZero(x) == x[1] = 0 /\ x[2] # 0
IsFinite(x) == x[2] # 0
SignOf(x) == IF x[1] = 0 THEN (IF x[2] < 0 THEN -1 ELSE 1)
             ELSE (IF x[1] < 0 THEN -1 ELSE 1)

\* the quotient n/d of integers, d # 0, n # 0, in lowest terms
Ratio(n, d) == LET g == Gcd(Abs(n), Abs(d))
                   s == IF (n < 0) = (d < 0) THEN 1 ELSE -1
               IN  <<s * (Abs(n) \div g), Abs(d) \div g>>

FNeg(x) == IF IsNaN(x) THEN NaN
           ELSE IF IsZero(x) THEN <<0, -x[2]>>
           ELSE <<-x[1], x[2]>>

FAdd(x, y) ==
    IF IsNaN(x) \/ IsNaN(y) THEN NaN
    ELSE IF IsInf(x) /\ IsInf(y) THEN (IF x = y THEN x ELSE NaN)
    ELSE IF IsInf(x) THEN x
    ELSE IF IsInf(y) THEN y
    ELSE IF IsZero(x) /\ IsZero(y) THEN (IF x = y THEN x ELSE PosZero)
    ELSE LET n == x[1] * Abs(y[2]) + y[1] * Abs(x[2])
         IN  IF n = 0 THEN PosZero ELSE Ratio(n, Abs(x[2]) * Abs(y[2]))

FSub(x, y) == FAdd(x, FNeg(y))

FMul(x, y) ==
    IF IsNaN(x) \/ IsNaN(y) THEN NaN
    ELSE IF (IsInf(x) /\ IsZero(y)) \/ (IsZero(x) /\ IsInf(y)) THEN NaN
    ELSE IF IsInf(x) \/ IsInf(y) THEN <<SignOf(x) * SignOf(y), 0>>
    ELSE IF IsZero(x) \/ IsZero(y) THEN <<0, SignOf(x) * SignOf(y)>>
    ELSE Ratio(x[1] * y[1], x[2] * y[2])

FDiv(x, y) ==
    IF IsNaN(x) \/ IsNaN(y) THEN NaN
    ELSE IF (IsInf(x) /\ IsInf(y)) \/ (IsZero(x) /\ IsZero(y)) THEN NaN
    ELSE IF IsInf(x) \/ IsZero(y) THEN <<SignOf(x) * SignOf(y), 0>>
    ELSE IF IsZero(x) \/ IsInf(y) THEN <<0, SignOf(x) * SignOf(y)>>
    ELSE Ratio(x[1] * y[2], x[2] * y[1])

\* x < y, x > y on f32: false when either is NaN; the zeros are equal
FLt(x, y) ==
    IF IsNaN(x) \/ IsNaN(y) THEN FALSE
    ELSE IF IsInf(x) THEN x[1] < 0 /\ y # x
    ELSE IF IsInf(y) THEN y[1] > 0
    ELSE x[1] * Abs(y[2]) < y[1] * Abs(x[2])

FGt(x, y) == FLt(y, x)

\* x >= y on f32
FGe(x, y) == ~IsNaN(x) /\ ~IsNaN(y) /\ ~FLt(x, y)

\* x != 0.0 on f32 (true for NaN)
FNonZero(x) == ~IsZero(x)

-----------------------------------------------------------------------------
(* The column codec.                                                       *)

\* CellRef::text_to_number: sum = sum * 26 + (c - 'A' + 1) over the
\* upper-cased characters, then sum - 1.
RECURSIVE TextToNumberSum(_)
TextToNumberSum(s) ==
    IF s = <<>> THEN 0
    ELSE TextToNumberSum(SubSeq(s, 1, Len(s) - 1)) * 26
         + (CHOOSE i \in 1..26 : UpperChars[i] = ToUpper(s[Len(s)]))

text_to_number(column_name) == TextToNumberSum(column_name) - 1

CeilDiv(a, b) == (a + b - 1) \div b

\* CellRef::number_to_text: the loop on f, the character prepended to s.
\* f is an integer-valued f32 below 2^24, on which %, / and ceil are exact.
RECURSIVE NumberToTextLoop(_, _)
NumberToTextLoop(f, s) ==
    LET c  == f % 26
        s2 == <<UpperChars[IF c = 0 THEN 26 ELSE c]>> \o s
    IN  IF f <= 26 THEN s2 ELSE NumberToTextLoop(CeilDiv(f, 26) - 1, s2)

number_to_text(column) == NumberToTextLoop(column, <<>>)

-----------------------------------------------------------------------------
(* The scanner.  A token is [type, lexeme, literal]; the literal is the    *)
(* f32 of a Number, the CellIndex <<row, column>> of a CellRef, <<>> else. *)

FnRandom      == <<"r", "a", "n", "d", "o", "m">>
FnRandbetween == <<"r", "a", "n", "d", "b", "e", "t", "w", "e", "e", "n">>
FnSum         == <<"s", "u", "m">>
FnAverage     == <<"a", "v", "e", "r", "a", "g", "e">>
FnMax         == <<"m", "a", "x">>
FnMin         == <<"m", "i", "n">>
FnIf          == <<"i", "f">>
FnVlookup     == <<"v", "l", "o", "o", "k", "u", "p">>
FnConcatenate == <<"c", "o", "n", "c", "a", "t", "e", "n", "a", "t", "e">>

FUNCTIONS == <<FnRandom, FnRandbetween, FnSum, FnAverage, FnMax, FnMin, FnIf,
               FnVlookup, FnConcatenate>>

Token(t, lexeme, literal) == [type |-> t, lexeme |-> lexeme, literal |-> literal]

CellIndex(row, column) == <<row, column>>

\* `while !is_at_end() && is_number(peak()) { current += 1 }`, from current
RECURSIVE SkipNumbers(_, _)
SkipNumbers(content, current) ==
    IF current < Len(content) /\ is_number(content[current + 1])
    THEN SkipNumbers(content, current + 1) ELSE current

\* `while !is_at_end() && is_alpha(peak()) { current += 1 }`, from current
RECURSIVE SkipAlphas(_, _)
SkipAlphas(content, current) ==
    IF current < Len(content) /\ is_alpha(content[current + 1])
    THEN SkipAlphas(content, current + 1) ELSE current

RECURSIVE Pow10(_)
Pow10(k) == IF k = 0 THEN 1 ELSE 10 * Pow10(k - 1)

\* str::parse::<f32> of digits with an optional fraction: digits [. digits]
ParseDecimal(lexeme) ==
    LET dots   == {i \in 1..Len(lexeme) : lexeme[i] = "."}
        dot    == IF dots = {} THEN Len(lexeme) + 1 ELSE CHOOSE i \in dots : TRUE
        whole  == SubSeq(lexeme, 1, dot - 1)
        frac   == SubSeq(lexeme, dot + 1, Len(lexeme))
        n      == ParseUsize(whole \o frac)
    IN  IF n = 0 THEN PosZero ELSE Ratio(n, Pow10(Len(frac)))

\* Tokenizer::number, entered with `start` at the first digit and current
\* one past it: [err, current, token]
number(content, start) ==
    LET e1 == SkipNumbers(content, start + 1)
        has_dot == e1 < Len(content) /\ content[e1 + 1] = "."
        bad == has_dot /\ (e1 + 1 >= Len(content) \/ ~is_number(content[e1 + 2]))
        e2 == IF has_dot /\ ~bad THEN SkipNumbers(content, e1 + 2) ELSE e1
        lexeme == SubSeq(content, start + 1, e2)
    IN  IF bad
        THEN [err |-> "Invalid token while scanning number", current |-> e1 + 1,
              token |-> <<>>]
        ELSE [err |-> "", current |-> e2,
              token |-> Token("Number", lexeme, ParseDecimal(lexeme))]

IsFunctionName(name) == \E i \in 1..Len(FUNCTIONS) : FUNCTIONS[i] = name

\* Tokenizer::string, entered with `start` at the first letter
string(content, start) ==
    LET e1 == SkipAlphas(content, start + 1)
        ends_with_number == e1 < Len(content) /\ is_number(content[e1 + 1])
        numbers_count == e1 - start
        e2 == SkipNumbers(content, e1)
        lexeme == SubSeq(content, start + 1, e2)
        func == IsFunctionName(LowerText(lexeme))
    IN  IF ~ends_with_number /\ ~func
        THEN [err |-> "Invalid token while scanning cell_ref", current |-> e2,
              token |-> <<>>]
        ELSE IF func
        THEN [err |-> "", current |-> e2, token |-> Token("Function", lexeme, <<>>)]
        ELSE [err |-> "", current |-> e2,
              token |-> Token("CellRef", lexeme,
                  CellIndex(text_to_number(SubSeq(lexeme, 1, numbers_count)),
                            ParseUsize(SubSeq(lexeme, numbers_count + 1, Len(lexeme)))))]

PunctType(c) ==
    CASE c = "(" -> "OpeningParenthese"
      [] c = ")" -> "ClosingParenthese"
      [] c = "+" -> "Plus"
      [] c = "-" -> "Minus"
      [] c = "*" -> "Star"
      [] c = "/" -> "Slash"
      [] c = "," -> "Comma"
      [] OTHER   -> ""

\* Tokenizer::scan_token, iterated by get_tokens: [err, tokens]
RECURSIVE scan_token(_, _, _)
scan_token(content, current, tokens) ==
    IF current >= Len(content) THEN [err |-> "", tokens |-> tokens]
    ELSE LET c == content[current + 1] IN
         IF c \in {"\n", " ", "\t"} THEN scan_token(content, current + 1, tokens)
         ELSE IF PunctType(c) # ""
         THEN scan_token(content, current + 1,
                         Append(tokens, Token(PunctType(c), <<c>>, <<>>)))
         ELSE IF is_number(c) \/ is_alpha(c)
         THEN LET r == IF is_number(c) THEN number(content, current)
                       ELSE string(content, current)
              IN  IF r.err # "" THEN [err |-> r.err, tokens |-> tokens]
                  ELSE scan_token(content, r.current, Append(tokens, r.token))
         ELSE [err |-> "Unknown token", tokens |-> tokens]

get_tokens(content) == scan_token(content, 0, <<>>)

-----------------------------------------------------------------------------
(* The parser.  Every rule returns [err, node, tokens]: the panic message  *)
(* or "", the expression built, the tokens left.  A node is a tuple        *)
(* headed by the name of its struct.                                       *)

IndexPanic == "removal index (is 0) should be < len (is 0)"

\* Parser::next_token_is
next_token_is(tokens, types) == tokens # <<>> /\ tokens[1].type \in types

PErr(msg, tokens) == [err |-> msg, node |-> <<>>, tokens |-> tokens]
POk(node, tokens) == [err |-> "", node |-> node, tokens |-> tokens]

RECURSIVE expression(_), term_loop(_, _), factor(_), factor_loop(_, _),
          unary(_), primary(_), params_loop(_, _)

\* a term loop that groups to the right, a - b - c as a - (b - c): the
\* reading ArithmeticIsConventional tells apart from that of term_loop
binary_right(expr, op, r) ==
    IF r.err # "" THEN r ELSE POk(<<"Binary", expr, op, r.node>>, r.tokens)

term_loop_right(expr, tokens) ==
    IF next_token_is(tokens, {"Plus", "Minus"})
    THEN binary_right(expr, tokens[1].type, expression(Tail(tokens)))
    ELSE POk(expr, tokens)

\* the loop of term goes on with the right operand r just parsed
term_next(expr, op, r) ==
    IF r.err # "" THEN r ELSE term_loop(<<"Binary", expr, op, r.node>>, r.tokens)

\* Parser::term, the loop `while self.next_token_is(&[Plus, Minus])`
term_loop(expr, tokens) ==
    IF next_token_is(tokens, {"Plus", "Minus"})
    THEN term_next(expr, tokens[1].type, factor(Tail(tokens)))
    ELSE POk(expr, tokens)

term_first(l) == IF l.err # "" THEN l ELSE term_loop(l.node, l.tokens)

\* Parser::term: `let mut expr = self.factor();` then the loop
term(tokens) == term_first(factor(tokens))

\* Parser::expression
expression(tokens) == term(tokens)

factor_next(expr, op, r) ==
    IF r.err # "" THEN r ELSE factor_loop(<<"Binary", expr, op, r.node>>, r.tokens)

\* Parser::factor, the loop `while self.next_token_is(&[Star, Slash])`
factor_loop(expr, tokens) ==
    IF next_token_is(tokens, {"Star", "Slash"})
    THEN factor_next(expr, tokens[1].type, unary(Tail(tokens)))
    ELSE POk(expr, tokens)

factor_first(l) == IF l.err # "" THEN l ELSE factor_loop(l.node, l.tokens)

\* Parser::factor: `let mut expr = self.unary();` then the loop
factor(tokens) == factor_first(unary(tokens))

unary_of(op, e) ==
    IF e.err # "" THEN e ELSE POk(<<"Unary", op, e.node>>, e.tokens)

\* Parser::unary
unary(tokens) ==
    IF next_token_is(tokens, {"Plus", "Minus"})
    THEN unary_of(tokens[1].type, unary(Tail(tokens)))
    ELSE primary(tokens)

params_next(params, e) ==
    IF e.err # "" THEN e ELSE params_loop(Append(params, e.node), e.tokens)

\* Parser::primary, the loop `while !self.next_token_is(&[ClosingParenthese])`
\* of a function call and the consume of the ')' after it: in the loop one
\* token is consumed as the ',', whatever it is, then an expression is parsed
params_loop(params, tokens) ==
    IF next_token_is(tokens, {"ClosingParenthese"}) THEN POk(params, Tail(tokens))
    ELSE IF tokens = <<>> THEN PErr(IndexPanic, tokens)
    ELSE params_next(params, expression(Tail(tokens)))

\* the group is closed after its expression g
group_of(g) ==
    IF g.err # "" THEN g
    ELSE IF ~next_token_is(g.tokens, {"ClosingParenthese"})
    THEN PErr("Expected )", g.tokens)
    ELSE POk(<<"Group", g.node>>, Tail(g.tokens))

function_of(name, ps) ==
    IF ps.err # "" THEN ps ELSE POk(<<"FnExpression", name, ps.node>>, ps.tokens)

\* Parser::primary
primary(tokens) ==
    IF next_token_is(tokens, {"Number"})
    THEN POk(<<"Literal", tokens[1].literal>>, Tail(tokens))
    ELSE IF next_token_is(tokens, {"CellRef"})
    THEN POk(<<"CellRef", tokens[1].literal>>, Tail(tokens))
    ELSE IF next_token_is(tokens, {"OpeningParenthese"})
    THEN group_of(expression(Tail(tokens)))
    ELSE IF next_token_is(tokens, {"Function"})
    THEN IF ~next_token_is(Tail(tokens), {"OpeningParenthese"})
         THEN PErr("Expected ( after function name", Tail(tokens))
         ELSE IF next_token_is(Tail(Tail(tokens)), {"ClosingParenthese"})
         THEN function_of(tokens[1].lexeme, params_loop(<<>>, Tail(Tail(tokens))))
         ELSE function_of(tokens[1].lexeme,
                          params_next(<<>>, expression(Tail(Tail(tokens)))))
    ELSE IF tokens = <<>> THEN PErr(IndexPanic, tokens)
    ELSE PErr("Invalid expression", Tail(tokens))

\* Parser::parse
parse(tokens) == expression(tokens)

-----------------------------------------------------------------------------
(* Evaluation.  Expression::evaluate walks the tree depth first; Code      *)
(* lists the steps of that walk in the order evaluate takes them.  A       *)
(* function call is two steps: FnEnter is the match on the name and the    *)
(* checks made before any argument is evaluated, FnExit the computation    *)
(* made after the last one.                                                *)

RECURSIVE Code(_), CodeOfParams(_)
Code(node) ==
    CASE node[1] = "Literal" -> <<node>>
      [] node[1] = "CellRef" -> <<node>>
      [] node[1] = "Group"   -> Code(node[2])
      [] node[1] = "Unary"   -> Code(node[3]) \o << <<"Unary", node[2]>> >>
      [] node[1] = "Binary"  ->
            Code(node[2]) \o Code(node[4]) \o << <<"Binary", node[3]>> >>
      [] node[1] = "FnExpression" ->
            << <<"FnEnter", node[2], Len(node[3])>> >> \o CodeOfParams(node[3])
            \o << <<"FnExit", node[2], Len(node[3])>> >>

CodeOfParams(params) ==
    IF params = <<>> THEN <<>> ELSE Code(Head(params)) \o CodeOfParams(Tail(params))

\* Binary::evaluate
BinaryEvaluate(op, num1, num2) ==
    CASE op = "Plus"  -> FAdd(num1, num2)
      [] op = "Minus" -> FSub(num1, num2)
      [] op = "Star"  -> FMul(num1, num2)
      [] op = "Slash" -> FDiv(num1, num2)

\* Unary::evaluate
UnaryEvaluate(op, num) == IF op = "Minus" THEN FNeg(num) ELSE num

UnknownFunction == "Not all FUNCTIONS are implemented"

\* FnExpression::evaluate, the arm taken for `name` and its check of the
\* number of arguments: the kind and message of the panic, or <<"", "">>
FnEnter(name, n) ==
    CASE name = FnRandom ->
            IF n # 0 THEN <<"ArityError", "random takes no arguments">>
            ELSE <<"", "">>
      [] name = FnRandbetween ->
            IF n # 2 THEN <<"ArityError", "randbetween takes only 2 arguments">>
            ELSE <<"", "">>
      [] name = FnSum -> <<"", "">>
      [] name = FnAverage ->
            IF n = 0 THEN <<"ArityError", "max expects at least one argument">>
            ELSE <<"", "">>
      [] name = FnMax ->
            IF n = 0 THEN <<"ArityError", "max expects at least one argument">>
            ELSE <<"", "">>
      [] name = FnMin ->
            IF n = 0 THEN <<"ArityError", "min expects at least one argument">>
            ELSE <<"", "">>
      [] name = FnIf ->
            IF n # 3 THEN <<"ArityError", "if takes only 3 arguments">>
            ELSE <<"", "">>
      [] name = FnVlookup -> <<"NotImplemented", "not yet implemented">>
      [] name = FnConcatenate -> <<"NotImplemented", "not yet implemented">>
      [] OTHER -> <<"NotImplemented", UnknownFunction>>

\* `sum += num` over the arguments, from 0.0
RECURSIVE SumLoop(_, _)
SumLoop(sum, nums) ==
    IF nums = <<>> THEN sum ELSE SumLoop(FAdd(sum, Head(nums)), Tail(nums))

\* the loop of min in the place of that of max: the slip BuiltinsAsTabled
\* tells apart from MaxLoop
RECURSIVE MaxLoopLess(_, _)
MaxLoopLess(max, nums) ==
    IF nums = <<>> THEN max
    ELSE MaxLoopLess(IF FLt(Head(nums), max) THEN Head(nums) ELSE max, Tail(nums))

\* `if num > max { max = num }` over the arguments after the first
RECURSIVE MaxLoop(_, _)
MaxLoop(max, nums) ==
    IF nums = <<>> THEN max
    ELSE MaxLoop(IF FGt(Head(nums), max) THEN Head(nums) ELSE max, Tail(nums))

\* `if num < min { min = num }` over the arguments after the first
RECURSIVE MinLoop(_, _)
MinLoop(min, nums) ==
    IF nums = <<>> THEN min
    ELSE MinLoop(IF FLt(Head(nums), min) THEN Head(nums) ELSE min, Tail(nums))

\* what gen::<i32>() as f32 may return: some values of the i32 range
RandomValues == {FInt(0 - 7), FInt(0), FInt(12)}

\* what gen_range(num1..num2) may return: some values of [num1, num2)
RandbetweenValues(num1, num2) == {num1, FDiv(FAdd(num1, num2), FInt(2))}

\* FnExpression::evaluate after the arguments: the set of
\* <<kind, message, value>> the call can end with
FnExit(name, nums) ==
    CASE name = FnRandom -> {<<"", "", v>> : v \in RandomValues}
      [] name = FnRandbetween ->
            IF FGe(nums[1], nums[2])
            THEN {<<"RangeError",
                    "randbetween: first argument should be smaller than the second",
                    NaN>>}
            ELSE IF ~IsFinite(nums[1]) \/ ~IsFinite(nums[2])
            THEN {<<"RangeError", "gen_range: the range is not finite", NaN>>}
            ELSE {<<"", "", v>> : v \in RandbetweenValues(nums[1], nums[2])}
      [] name = FnSum -> {<<"", "", SumLoop(PosZero, nums)>>}
      [] name = FnAverage ->
            {<<"", "", FDiv(SumLoop(PosZero, nums), FInt(Len(nums)))>>}
      [] name = FnMax -> {<<"", "", MaxLoop(Head(nums), Tail(nums))>>}
      [] name = FnMin -> {<<"", "", MinLoop(Head(nums), Tail(nums))>>}
      [] name = FnIf ->
            {<<"", "", IF FNonZero(nums[1]) THEN nums[2] ELSE nums[3]>>}

\* One step of evaluate other than a cell reference, on the values `vals`
\* computed so far: the set of <<kind, message, new vals>>
StepOutcomes(ins, vals) ==
    LET n == Len(vals) IN
    CASE ins[1] = "Literal" -> {<<"", "", Append(vals, ins[2])>>}
      [] ins[1] = "Unary" ->
            {<<"", "", Append(SubSeq(vals, 1, n - 1), UnaryEvaluate(ins[2], vals[n]))>>}
      [] ins[1] = "Binary" ->
            {<<"", "", Append(SubSeq(vals, 1, n - 2),
                              BinaryEvaluate(ins[2], vals[n - 1], vals[n]))>>}
      [] ins[1] = "FnEnter" ->
            {<<FnEnter(ins[2], ins[3])[1], FnEnter(ins[2], ins[3])[2], vals>>}
      [] ins[1] = "FnExit" ->
            {<<o[1], o[2], Append(SubSeq(vals, 1, n - ins[3]), o[3])>> :
                o \in FnExit(ins[2], SubSeq(vals, n - ins[3] + 1, n))}

-----------------------------------------------------------------------------
(* Cells and the tables of parse_file.                                     *)

\* str::split: the pieces of s between the occurrences of sep
RECURSIVE Split(_, _)
Split(s, sep) ==
    LET at == {i \in 1..Len(s) : s[i] = sep}
    IN  IF at = {} THEN <<s>>
        ELSE LET i == CHOOSE j \in at : \A k \in at : j <= k
             IN  <<SubSeq(s, 1, i - 1)>> \o Split(SubSeq(s, i + 1, Len(s)), sep)

\* Cell::Value(text).  A computed value is stored as f.to_string(), which
\* parse::<f32> reads back as f: the model keeps f, in num.
InputCell(text)  == [computed |-> FALSE, text |-> text, num |-> PosZero]
ComputedCell(f)  == [computed |-> TRUE, text |-> <<>>, num |-> f]

IsDecimal(t) ==
    /\ t # <<>>
    /\ \A i \in 1..Len(t) : is_number(t[i]) \/ t[i] = "."
    /\ Cardinality({i \in 1..Len(t) : t[i] = "."}) <= 1
    /\ \E i \in 1..Len(t) : is_number(t[i])

\* value.parse::<f32>().unwrap_or_default() on a text of digits, '.', a
\* leading sign and other characters (no exponent, no "inf", no "nan")
ParseF32OrDefault(text) ==
    LET signed == text # <<>> /\ text[1] \in {"+", "-"}
        body   == IF signed THEN Tail(text) ELSE text
    IN  IF ~IsDecimal(body) THEN PosZero
        ELSE IF signed /\ text[1] = "-" THEN FNeg(ParseDecimal(body))
        ELSE ParseDecimal(body)

\* a read that parses the text of the cell whatever the cell is, so that a
\* computed cell reads as 0: the behaviour OrderIndependent tells apart
\* from that of CellValue
CellValueOfText(cell) == ParseF32OrDefault(cell.text)

CellValue(cell) == IF cell.computed THEN cell.num ELSE ParseF32OrDefault(cell.text)

\* the <<row, column, text>> of every field of file_content
Fields(file_content) ==
    LET lines == Split(file_content, "\n")
        columns(row) == Split(lines[row], "|")
    IN  UNION {{<<row - 1, column - 1, columns(row)[column]>> :
                    column \in 1..Len(columns(row))} : row \in 1..Len(lines)}

starts_with(cell, c) == cell # <<>> /\ cell[1] = c

FieldAt(file_content, index) ==
    (CHOOSE f \in Fields(file_content) : <<f[1], f[2]>> = index)[3]

\* parse_file, the first loop: the table of the fields that start with '='
\* (the '=' removed) and the table of the other fields
ExprCellsOf(file_content) ==
    LET keys == {CellIndex(f[1], f[2]) :
                    f \in {g \in Fields(file_content) : starts_with(g[3], "=")}}
    IN  [index \in keys |-> Tail(FieldAt(file_content, index))]

ValueCellsOf(file_content) ==
    LET keys == {CellIndex(f[1], f[2]) :
                    f \in {g \in Fields(file_content) : ~starts_with(g[3], "=")}}
    IN  [index \in keys |-> InputCell(FieldAt(file_content, index))]

\* HashMap::insert
Insert(table, index, cell) ==
    [k \in DOMAIN table \cup {index} |-> IF k = index THEN cell ELSE table[k]]

\* the derived Ord of CellIndex: by row, then by column
IndexLess(a, b) == a[1] < b[1] \/ (a[1] = b[1] /\ a[2] < b[2])

\* `sorted`: the keys of the table in ascending order
RECURSIVE SortedKeys(_)
SortedKeys(keys) ==
    IF keys = {} THEN <<>>
    ELSE LET m == CHOOSE k \in keys : \A o \in keys : o = k \/ IndexLess(k, o)
         IN  <<m>> \o SortedKeys(keys \ {m})

\* parse_file, the last loop: the text returned, as the sequence of its
\* pieces: a line break <<"\n">> or a field <<index, cell>> (its padding to
\* ten characters and the '|' after it are not modelled)
RECURSIVE RenderLoop(_, _, _)
RenderLoop(table, sorted, last_line) ==
    IF sorted = <<>> THEN << <<"\n">> >>
    ELSE LET index == Head(sorted)
             brk == IF index[1] # last_line THEN << <<"\n">> >> ELSE <<>>
         IN  brk \o << <<index, table[index]>> >>
             \o RenderLoop(table, Tail(sorted), index[1])

Render(table) == RenderLoop(table, SortedKeys(DOMAIN table), 0)

NoError == [msg |-> "", path |-> <<>>, names |-> <<>>, at |-> <<>>]
ErrorMsg(msg) == [msg |-> msg, path |-> <<>>, names |-> <<>>, at |-> <<>>]

Compiled(kind, msg, code) == [kind |-> kind, msg |-> msg, code |-> code]

CompileParsed(parsed) ==
    IF parsed.err # "" THEN Compiled("ParseError", parsed.err, <<>>)
    ELSE Compiled("", "", Code(parsed.node))

CompileScanned(scanned) ==
    IF scanned.err # "" THEN Compiled("LexError", scanned.err, <<>>)
    ELSE CompileParsed(parse(scanned.tokens))

\* Tokenizer::new(expr).get_tokens() and Parser::new(tokens).parse(): the
\* kind and message of the panic, or the steps of the expression parsed
Compile(expr) == CompileScanned(get_tokens(expr))

Frame(index, top, code) == [index |-> index, top |-> top, code |-> code, vals |-> <<>>]

Bump(counter, index) == [counter EXCEPT ![index] = @ + 1]

-----------------------------------------------------------------------------
(* The run of parse_file.                                                  *)

Start(file_content, drawn) ==
    /\ input = file_content
    /\ expr_cells = ExprCellsOf(file_content)
    /\ value_cells = ValueCellsOf(file_content)
    /\ pending = DOMAIN ExprCellsOf(file_content)
    /\ frames = <<>>
    /\ visiting = <<>>
    /\ status = "running"
    /\ errinfo = NoError
    /\ output = <<>>
    /\ evaluations = [index \in DOMAIN ExprCellsOf(file_content) |-> 0]
    /\ writes = [index \in DOMAIN ExprCellsOf(file_content) |-> 0]
    /\ topOrder = <<>>
    /\ arg = drawn
    /\ res = <<>>

Panic(kind, info) ==
    /\ status' = kind
    /\ errinfo' = info

\* the evaluation of the formula of `index`, compiled to c, begins
Enter(index, top, c, below) ==
    IF c.kind # ""
    THEN /\ Panic(c.kind, ErrorMsg(c.msg))
         /\ UNCHANGED <<frames, evaluations>>
    ELSE /\ frames' = Append(below, Frame(index, top, c.code))
         /\ evaluations' = Bump(evaluations, index)
         /\ UNCHANGED <<status, errinfo>>

\* parse_file, one iteration of `for (index, cell) in &expr_cells` up to the
\* call of evaluate: the HashMap yields its keys in an order of its own
EvalTop ==
    /\ status = "running"
    /\ frames = <<>>
    /\ \E index \in pending :
        /\ pending' = pending \ {index}
        /\ topOrder' = Append(topOrder, index)
        /\ visiting' = <<>>
        /\ Enter(index, TRUE, Compile(expr_cells[index]), <<>>)
    /\ UNCHANGED <<input, expr_cells, value_cells, output, writes, arg, res>>

Top == frames[Len(frames)]

SetTop(f) == [frames EXCEPT ![Len(frames)] = f]

\* Literal, Unary, Binary and FnExpression::evaluate: the next step of the
\* innermost activation
EvalStep ==
    /\ status = "running"
    /\ frames # <<>>
    /\ Top.code # <<>>
    /\ Head(Top.code)[1] # "CellRef"
    /\ \E o \in StepOutcomes(Head(Top.code), Top.vals) :
        IF o[1] # ""
        THEN /\ Panic(o[1], ErrorMsg(o[2]))
             /\ UNCHANGED frames
        ELSE /\ frames' = SetTop([Top EXCEPT !.code = Tail(@), !.vals = o[3]])
             /\ UNCHANGED <<status, errinfo>>
    /\ UNCHANGED <<input, expr_cells, value_cells, pending, visiting, output,
                   evaluations, writes, topOrder, arg, res>>

\* the panic message of a cycle: the items of `visiting`, then its first
CyclePath(list) == Append(list, Head(list))

CellName(index) == number_to_text(index[1]) \o UsizeToString(index[2])

CycleInfo(list, cell_index) ==
    [msg |-> "Cycle detected", path |-> CyclePath(list),
     names |-> [i \in 1..Len(CyclePath(list)) |-> CellName(CyclePath(list)[i])],
     at |-> cell_index]

\* a lookup that reads an absent cell as an empty input cell: the
\* behaviour AbortOnFirstError tells apart from that of LookupCell
LookupCellOrDefault(values, exprs, cell_index) ==
    IF cell_index \in DOMAIN values THEN <<"Value", values[cell_index]>>
    ELSE IF cell_index \in DOMAIN exprs THEN <<"Expression", exprs[cell_index]>>
    ELSE <<"Value", InputCell(<<>>)>>

\* value_cells.get(&cell_index).or(expr_cells.get(&cell_index)): the cell
\* found, <<"Value", cell>> or <<"Expression", text>>, or <<"None">>
LookupCell(values, exprs, cell_index) ==
    IF cell_index \in DOMAIN values THEN <<"Value", values[cell_index]>>
    ELSE IF cell_index \in DOMAIN exprs THEN <<"Expression", exprs[cell_index]>>
    ELSE <<"None">>

\* a search of the path that compares rows only: the test
\* CycleErrorOnlyOnLoop tells apart from that of Contains
ContainsRow(list, x) == \E i \in 1..Len(list) : list[i][1] = x[1]

\* visiting.iter().find(|x| *x == &cell_index).is_some()
Contains(list, x) == \E i \in 1..Len(list) : list[i] = x

\* CellRef::evaluate up to the recursive call: the lookup in value_cells,
\* then in expr_cells, the guard, the push and the parse of the formula
EvalCellRef ==
    /\ status = "running"
    /\ frames # <<>>
    /\ Top.code # <<>>
    /\ Head(Top.code)[1] = "CellRef"
    /\ LET cell_index == Head(Top.code)[2]
           cell == LookupCell(value_cells, expr_cells, cell_index)
           caller == [Top EXCEPT !.code = Tail(@)]
       IN  IF cell[1] = "None"
           THEN /\ Panic("ReferenceError", ErrorMsg("Refering to an unknown cell"))
                /\ UNCHANGED <<frames, visiting, evaluations>>
           ELSE IF cell[1] = "Value"
           THEN /\ frames' = SetTop([caller EXCEPT !.vals = Append(@, CellValue(cell[2]))])
                /\ UNCHANGED <<status, errinfo, visiting, evaluations>>
           ELSE IF Contains(visiting, cell_index)
           THEN /\ Panic("CycleError", CycleInfo(visiting, cell_index))
                /\ UNCHANGED <<frames, visiting, evaluations>>
           ELSE /\ visiting' = Append(visiting, cell_index)
                /\ Enter(cell_index, FALSE, Compile(cell[2]), SetTop(caller))
    /\ UNCHANGED <<input, expr_cells, value_cells, pending, output, writes,
                   topOrder, arg, res>>

\* a return that leaves the path as it is: the behaviour GuardPathIsStack
\* tells apart from that of RemoveFirst
RemoveNothing(list, x) == list

\* visiting.remove(visiting.iter().position(|x| *x == cell_index).unwrap())
RemoveFirst(list, x) ==
    LET i == CHOOSE j \in 1..Len(list) :
                 list[j] = x /\ \A k \in 1..(j - 1) : list[k] # x
    IN  SubSeq(list, 1, i - 1) \o SubSeq(list, i + 1, Len(list))

\* CellRef::evaluate after the recursive call: the pop, the insert into
\* value_cells and the return of the value to the caller
ReturnCellRef ==
    /\ status = "running"
    /\ frames # <<>>
    /\ Top.code = <<>>
    /\ ~Top.top
    /\ LET evaluated == Top.vals[1]
           below == SubSeq(frames, 1, Len(frames) - 1)
       IN  /\ visiting' = RemoveFirst(visiting, Top.index)
           /\ value_cells' = Insert(value_cells, Top.index, ComputedCell(evaluated))
           /\ writes' = Bump(writes, Top.index)
           /\ frames' = [below EXCEPT ![Len(below)].vals = Append(@, evaluated)]
    /\ UNCHANGED <<input, expr_cells, pending, status, errinfo, output,
                   evaluations, topOrder, arg, res>>

\* parse_file, the rest of the iteration: the value evaluate returned is
\* inserted under the key of the loop
ReturnTop ==
    /\ status = "running"
    /\ frames # <<>>
    /\ Top.code = <<>>
    /\ Top.top
    /\ value_cells' = Insert(value_cells, Top.index, ComputedCell(Top.vals[1]))
    /\ writes' = Bump(writes, Top.index)
    /\ frames' = <<>>
    /\ UNCHANGED <<input, expr_cells, pending, visiting, status, errinfo, output,
                   evaluations, topOrder, arg, res>>

\* parse_file after the loop: the table is sorted and rendered, and main
\* writes the text to the output file
RenderOutput ==
    /\ status = "running"
    /\ frames = <<>>
    /\ pending = {}
    /\ output' = Render(value_cells)
    /\ status' = "done"
    /\ UNCHANGED <<input, expr_cells, value_cells, pending, frames, visiting,
                   errinfo, evaluations, writes, topOrder, arg, res>>

-----------------------------------------------------------------------------
(* The inputs the specifications draw from.                                *)

\* the fields, in order, with sep between them
RECURSIVE JoinFirst(_, _, _)
JoinFirst(fields, n, sep) ==
    IF n = 0 THEN <<>>
    ELSE IF n = 1 THEN fields[1]
    ELSE JoinFirst(fields, n - 1, sep) \o <<sep>> \o fields[n]

Join(fields, sep) == JoinFirst(fields, Len(fields), sep)

\* 5
TxtFive == <<"5">>

\* =A1+A1
TxtSameTwice == <<"=", "A", "1", "+", "A", "1">>

\* =1.
TxtBadNumber == <<"=", "1", ".">>

\* =#
TxtBadChar == <<"=", "#">>

\* =ab
TxtBadName == <<"=", "a", "b">>

\* =(1
TxtNoClosing == <<"=", "(", "1">>

\* =1+
TxtNoOperand == <<"=", "1", "+">>

\* =if(1)
TxtIfOne == <<"=", "i", "f", "(", "1", ")">>

\* =randbetween(5,3)
TxtBadRange == <<"=", "r", "a", "n", "d", "b", "e", "t", "w", "e", "e", "n", "(", "5", ",", "3", ")">>

\* =vlookup()
TxtVlookup == <<"=", "v", "l", "o", "o", "k", "u", "p", "(", ")">>

\* =SUM(1)
TxtUpperSum == <<"=", "S", "U", "M", "(", "1", ")">>

\* =B7
TxtUnknownRef == <<"=", "B", "7">>

\* =-2*(3)
TxtArith == <<"=", "-", "2", "*", "(", "3", ")">>

\* x
TxtWord == <<"x">>

\* =A0
TxtRefA0 == <<"=", "A", "0">>

\* =A1
TxtRefA1 == <<"=", "A", "1">>

\* =random()
TxtRandom == <<"=", "r", "a", "n", "d", "o", "m", "(", ")">>

\* =sum(A1,2,A1)
TxtSumRefs == <<"=", "s", "u", "m", "(", "A", "1", ",", "2", ",", "A", "1", ")">>

\* =if(A1,A1,3)
TxtIfRefs == <<"=", "i", "f", "(", "A", "1", ",", "A", "1", ",", "3", ")">>

\* =randbetween(1,A1)
TxtRandRef == <<"=", "r", "a", "n", "d", "b", "e", "t", "w", "e", "e", "n", "(", "1", ",", "A", "1", ")">>

\* =max(A1)/0
TxtDivZero == <<"=", "m", "a", "x", "(", "A", "1", ")", "/", "0">>

\* 4
TxtFour == <<"4">>

\* =A0+1
TxtRefPlus == <<"=", "A", "0", "+", "1">>

\* the empty text
TxtEmpty == <<>>

\* 1|=A1+1\n2|=B1*2\n
EndToEnd == <<"1", "|", "=", "A", "1", "+", "1", "\n", "2", "|", "=", "B", "1", "*", "2", "\n">>

\* `=A<i>`: the field of row 0 ("A") and column i
RefTo(i) == <<"=", "A">> \o UsizeToString(i)

\* One line of Width fields: a number, a reference to a field of the line or
\* to the missing field after its last, or a formula naming one cell twice.
RefFieldTexts == {TxtFive, TxtSameTwice} \cup {RefTo(i) : i \in 0..Width}

RefGrids == {JoinFirst(f, Width, "|") : f \in [1..Width -> RefFieldTexts]}

\* Two fields, one of them a formula that ends in a panic of each kind.
ErrFormulas == {TxtBadNumber, TxtBadChar, TxtBadName, TxtNoClosing, TxtNoOperand,
                TxtIfOne, TxtBadRange, TxtVlookup, TxtUpperSum, TxtUnknownRef}

OtherFields == {TxtArith, TxtWord, TxtRefA0, TxtRefA1}

ErrGrids == {Join(<<e, o>>, "|") : e \in ErrFormulas, o \in OtherFields}
            \cup {Join(<<o, e>>, "|") : e \in ErrFormulas, o \in OtherFields}

\* Two fields: a call of a builtin on the second, and a field that may
\* refer back to the first.
\* =randbetween(random(),5)+A1
TxtRandGuard == <<"=", "r", "a", "n", "d", "b", "e", "t", "w", "e", "e", "n", "(", "r", "a", "n", "d", "o", "m", "(", ")", ",", "5", ")", "+", "A", "1">>

CallFormulas == {TxtRandom, TxtSumRefs, TxtIfRefs, TxtRandRef, TxtDivZero, TxtRandGuard}

SecondFields == {TxtRefA0, TxtFour, TxtRefPlus, TxtRandom, TxtEmpty, TxtWord}

CallGrids == {Join(<<c, o>>, "|") : c \in CallFormulas, o \in SecondFields}

Inputs == RefGrids \cup ErrGrids \cup CallGrids \cup {EndToEnd}

Init == \E file_content \in Inputs : Start(file_content, <<>>)

Next ==
    \/ EvalTop
    \/ EvalStep
    \/ EvalCellRef
    \/ ReturnCellRef
    \/ ReturnTop
    \/ RenderOutput

Spec == Init /\ [][Next]_vars

-----------------------------------------------------------------------------
(* Arithmetic formulas: one field, every text over ArithChars.             *)

ArithChars == {"2", "3", "+", "-", "*", "/", "(", ")"}

ArithTexts == UNION {[1..n -> ArithChars] : n \in 1..MaxArithLen}

TextOf(f) == [i \in 1..Len(f) |-> f[i]]

InitArith == \E t \in ArithTexts : Start(<<"=">> \o TextOf(t), TextOf(t))

NextExpr ==
    \/ EvalTop
    \/ EvalStep
    \/ ReturnTop
    \/ RenderOutput

SpecArith == InitArith /\ [][NextExpr]_vars

-----------------------------------------------------------------------------
(* Calls of the builtins: one field, a name of FUNCTIONS in lower case, in *)
(* upper case or capitalised, applied to a list of integers.               *)

UpperText(s) == [i \in 1..Len(s) |-> ToUpper(s[i])]

Capitalised(s) == [i \in 1..Len(s) |-> IF i = 1 THEN ToUpper(s[i]) ELSE s[i]]

CallNames == UNION {{FUNCTIONS[i], UpperText(FUNCTIONS[i]), Capitalised(FUNCTIONS[i])} :
                        i \in 1..Len(FUNCTIONS)}

ArgInts == {0 - 2, 0, 1, 3}

ArgLists == UNION {[1..n -> ArgInts] : n \in 0..MaxArgs}

IntText(k) == IF k < 0 THEN <<"-">> \o UsizeToString(0 - k) ELSE UsizeToString(k)

CallText(name, ints) ==
    <<"=">> \o name \o <<"(">>
    \o JoinFirst([i \in 1..Len(ints) |-> IntText(ints[i])], Len(ints), ",") \o <<")">>

InitCall ==
    \E name \in CallNames, ints \in ArgLists :
        Start(CallText(name, TextOf(ints)), [name |-> name, ints |-> TextOf(ints)])

SpecCall == InitCall /\ [][NextExpr]_vars

-----------------------------------------------------------------------------
(* The codec on its own: an index is turned into a label and back, a label *)
(* into an index and back.                                                 *)

Labels == UNION {[1..n -> Range(UpperChars)] : n \in 1..MaxLabelLen}

InitCodec ==
    \/ \E i \in 0..MaxIndex : Start(TxtEmpty, <<"index", i>>)
    \/ \E l \in Labels : Start(TxtEmpty, <<"label", TextOf(l)>>)

CallNumberToText ==
    /\ \/ arg[1] = "index" /\ res = <<>>
       \/ arg[1] = "label" /\ Len(res) = 1
    /\ res' = Append(res, number_to_text(IF res = <<>> THEN arg[2] ELSE res[1]))
    /\ UNCHANGED <<input, expr_cells, value_cells, pending, frames, visiting, status,
                   errinfo, output, evaluations, writes, topOrder, arg>>

CallTextToNumber ==
    /\ \/ arg[1] = "label" /\ res = <<>>
       \/ arg[1] = "index" /\ Len(res) = 1
    /\ res' = Append(res, text_to_number(IF res = <<>> THEN arg[2] ELSE res[1]))
    /\ UNCHANGED <<input, expr_cells, value_cells, pending, frames, visiting, status,
                   errinfo, output, evaluations, writes, topOrder, arg>>

NextCodec ==
    \/ CallNumberToText
    \/ CallTextToNumber

SpecCodec == InitCodec /\ [][NextCodec]_vars

-----------------------------------------------------------------------------
(* The scanner on one reference: a label followed by a decimal number.     *)

RefNumbers == 0..Width

InitRef ==
    \E l \in Labels, k \in RefNumbers :
        Start(TxtEmpty, [letters |-> TextOf(l), digits |-> UsizeToString(k)])

\* Tokenizer::get_tokens on the reference; res is the token list
ScanRef ==
    /\ res = <<>>
    /\ get_tokens(arg.letters \o arg.digits).err = ""
    /\ res' = get_tokens(arg.letters \o arg.digits).tokens
    /\ UNCHANGED <<input, expr_cells, value_cells, pending, frames, visiting, status,
                   errinfo, output, evaluations, writes, topOrder, arg>>

SpecRef == InitRef /\ [][ScanRef]_vars

-----------------------------------------------------------------------------
(* Formulas with calls: one field, a text of up to MaxPieces pieces, each   *)
(* piece a name of FUNCTIONS, a parenthesis, a comma, a digit or a sign.   *)
(* A name is never followed by a name or a digit, so that it is scanned as *)
(* a Function token of its own.                                            *)

MaxPieces == 6

Pieces == {FnSum, <<"(">>, <<")">>, <<",">>, <<"1">>, <<"+">>}

PieceLists ==
    {l \in UNION {[1..n -> Pieces] : n \in 1..MaxPieces} :
        \A i \in 1..(Len(l) - 1) : l[i] = FnSum => l[i + 1] \notin {FnSum, <<"1">>}}

RECURSIVE Flatten(_, _)
Flatten(list, n) == IF n = 0 THEN <<>> ELSE Flatten(list, n - 1) \o list[n]

InitPieces ==
    \E l \in PieceLists : Start(<<"=">> \o Flatten(l, Len(l)), Flatten(l, Len(l)))

SpecPieces == InitPieces /\ [][NextExpr]_vars

-----------------------------------------------------------------------------
(* Properties of the run of parse_file, checked under Spec.                *)

\* the formula cells the formula of `index` names
RefsOf(index) ==
    {t.literal : t \in {u \in Range(get_tokens(expr_cells[index]).tokens) :
                            u.type = "CellRef"}} \cap DOMAIN expr_cells

\* the formula cells reached from those of `from` by one reference or more
RECURSIVE ReachedFrom(_, _)
ReachedFrom(from, seen) ==
    LET next == UNION {RefsOf(a) : a \in from} \ seen
    IN  IF next = {} THEN seen ELSE ReachedFrom(next, seen \cup next)

OnLoop(index) == index \in ReachedFrom({index}, {})

\* a formula cell is being evaluated twice at once
Reentered ==
    \E i, j \in 1..Len(frames) : i < j /\ frames[i].index = frames[j].index

\* the next step is a reference to a formula cell that is being evaluated
AboutToReenter ==
    /\ frames # <<>>
    /\ Top.code # <<>>
    /\ Head(Top.code)[1] = "CellRef"
    /\ LookupCell(value_cells, expr_cells, Head(Top.code)[2])[1] = "Expression"
    /\ \E i \in 1..Len(frames) : frames[i].index = Head(Top.code)[2]

\* C1: when the references followed lead back to a formula cell that is
\* still being evaluated, the run fails with CycleError: no other panic and
\* no success ends it, no cell on a loop gets a result, and the depth of
\* the recursion stays within the number of formula cells.
CycleFailsWithCycleError ==
    /\ (Reentered \/ AboutToReenter) => status \in {"running", "CycleError"}
    /\ \A index \in DOMAIN expr_cells : OnLoop(index) => index \notin DOMAIN value_cells
    /\ (\E index \in DOMAIN expr_cells : OnLoop(index)) => status # "done"
    /\ Len(frames) <= Cardinality(DOMAIN expr_cells) + 1

\* C2: every formula cell is evaluated at most once and its result written
\* at most once, and exactly once when the run has completed.
EvaluatedExactlyOnce ==
    \A index \in DOMAIN expr_cells :
        /\ evaluations[index] <= 1
        /\ writes[index] <= 1
        /\ status = "done" => evaluations[index] = 1 /\ writes[index] = 1

\* C3: the top-level loop meets the formula cells in ascending order of
\* row, then column.
TopLevelAscending ==
    \A i, j \in 1..Len(topOrder) : i < j => IndexLess(topOrder[i], topOrder[j])

\* C4: on the end-to-end input the run raises no error, and when it has
\* completed every formula cell is in the output with a computed number.
EndToEndCompletes ==
    input = EndToEnd =>
        /\ status \in {"running", "done"}
        /\ status = "done" =>
              \A index \in DOMAIN expr_cells :
                  /\ index \in DOMAIN value_cells
                  /\ value_cells[index].computed
                  /\ \E i \in 1..Len(output) : output[i] = <<index, value_cells[index]>>

\* the next step is a reference to a cell that is in neither table
UnknownRefNext ==
    /\ frames # <<>>
    /\ Top.code # <<>>
    /\ Head(Top.code)[1] = "CellRef"
    /\ Head(Top.code)[2] \notin (DOMAIN value_cells \cup DOMAIN expr_cells)

\* C6: a step is taken only while no error has been raised; a step that
\* raises one leaves the results table as it was, evaluates no formula
\* and produces no output; a reference to a cell that is in neither table
\* raises ReferenceError.
AbortOnFirstError ==
    [][/\ status = "running"
       /\ UnknownRefNext => status' = "ReferenceError"
       /\ status' \notin {"running", "done"} =>
             /\ output' = <<>>
             /\ value_cells' = value_cells
             /\ evaluations' = evaluations
             /\ writes' = writes]_vars

\* C6, witness: a reference to an unknown cell has ended the run while
\* formula cells were still waiting, and nothing was rendered.
AbortedWithPending ==
    /\ status = "ReferenceError"
    /\ UnknownRefNext
    /\ pending # {}
    /\ output = <<>>

\* C7: the path of a CycleError is the guard path from its first entry and
\* ends with the address that was about to be entered again.
CyclePathEndsAtRepeated ==
    status = "CycleError" =>
        /\ SubSeq(errinfo.path, 1, Len(errinfo.path) - 1) = visiting
        /\ errinfo.path[Len(errinfo.path)] = errinfo.at

\* C13: CycleError is raised only at a formula cell that lies on a loop of
\* the reference graph; on a grid without such a loop no evaluation raises
\* it, whatever the order of the top-level loop.
CycleErrorOnlyOnLoop ==
    status = "CycleError" =>
        /\ errinfo.at \in DOMAIN expr_cells
        /\ OnLoop(errinfo.at)

\* C13, witness: a grid without a loop has completed, one of its formula
\* cells having been reached both through a reference and by the
\* top-level loop.
SharedCellCompleted ==
    /\ status = "done"
    /\ \A index \in DOMAIN expr_cells : ~OnLoop(index)
    /\ \E index \in DOMAIN expr_cells : evaluations[index] >= 2

NoDuplicates(list) == \A i, j \in 1..Len(list) : i # j => list[i] # list[j]

\* the cells entered through a reference and not yet returned from
InProgress == [i \in 1..(Len(frames) - 1) |-> frames[i + 1].index]

\* C15: the guard path never holds an address twice, holds addresses of
\* formula cells only, is the chain of the references in progress (so a
\* reference that returns leaves it as it was when entered), and is empty
\* when a top-level evaluation starts and when it returns.
GuardPathIsStack ==
    /\ NoDuplicates(visiting)
    /\ \A i \in 1..Len(visiting) : visiting[i] \in DOMAIN expr_cells
    /\ Len(visiting) <= Cardinality(DOMAIN expr_cells)
    /\ status = "running" => visiting = InProgress
    /\ (status = "running" /\ Len(frames) <= 1) => visiting = <<>>

\* C15, witness: a reference to a formula cell has returned to the
\* top-level evaluation, which goes on with an empty path.
ReturnedToTopLevel ==
    /\ status = "running"
    /\ Len(frames) = 1
    /\ visiting = <<>>
    /\ \E index \in DOMAIN expr_cells :
          /\ writes[index] >= 1
          /\ \A i \in 1..Len(topOrder) : topOrder[i] # index

\* the innermost activation has a next step, or one value to return
CanProceed ==
    frames # <<>> =>
        IF Top.code = <<>> THEN Len(Top.vals) = 1
        ELSE \/ Head(Top.code)[1] = "CellRef"
             \/ StepOutcomes(Head(Top.code), Top.vals) # {}

\* no formula of the grid calls random or randbetween
NoRandom ==
    \A index \in DOMAIN expr_cells :
        \A t \in Range(get_tokens(expr_cells[index]).tokens) :
            t.type = "Function" => LowerText(t.lexeme) \notin {FnRandom, FnRandbetween}

Undefined == <<FALSE, NaN>>

\* The value of the grid that no order enters into: <<TRUE, value>> of an
\* expression whose cells are read from the input, each formula cell
\* standing for the value of its own formula, or Undefined when a formula
\* met on the way is not scanned or parsed, a call panics, a cell is
\* missing, or a formula cell of `path` is met again.
RECURSIVE Meaning(_, _), MeaningOfAll(_, _), MeaningOfCell(_, _)

MeaningOfUnary(op, e) == IF e[1] THEN <<TRUE, UnaryEvaluate(op, e[2])>> ELSE Undefined

MeaningOfBinary(op, l, r) ==
    IF l[1] /\ r[1] THEN <<TRUE, BinaryEvaluate(op, l[2], r[2])>> ELSE Undefined

MeaningOfExit(out) == IF out[1] = "" THEN <<TRUE, out[3]>> ELSE Undefined

MeaningOfCall(name, args) ==
    IF args[1] THEN MeaningOfExit(CHOOSE out \in FnExit(name, args[2]) : TRUE)
    ELSE Undefined

MeaningOfRest(first, rest) ==
    IF first[1] /\ rest[1] THEN <<TRUE, <<first[2]>> \o rest[2]>> ELSE <<FALSE, <<>>>>

MeaningOfAll(nodes, path) ==
    IF nodes = <<>> THEN <<TRUE, <<>>>>
    ELSE MeaningOfRest(Meaning(Head(nodes), path), MeaningOfAll(Tail(nodes), path))

Meaning(node, path) ==
    CASE node[1] = "Literal" -> <<TRUE, node[2]>>
      [] node[1] = "CellRef" -> MeaningOfCell(node[2], path)
      [] node[1] = "Group"   -> Meaning(node[2], path)
      [] node[1] = "Unary"   -> MeaningOfUnary(node[2], Meaning(node[3], path))
      [] node[1] = "Binary"  ->
            MeaningOfBinary(node[3], Meaning(node[2], path), Meaning(node[4], path))
      [] node[1] = "FnExpression" ->
            IF FnEnter(node[2], Len(node[3]))[1] # "" THEN Undefined
            ELSE MeaningOfCall(node[2], MeaningOfAll(node[3], path))

MeaningOfText(scanned, path) ==
    IF scanned.err # "" \/ parse(scanned.tokens).err # "" THEN Undefined
    ELSE Meaning(parse(scanned.tokens).node, path)

MeaningOfCell(index, path) ==
    IF index \in DOMAIN ValueCellsOf(input)
    THEN <<TRUE, ParseF32OrDefault(ValueCellsOf(input)[index].text)>>
    ELSE IF index \notin DOMAIN expr_cells \/ index \in path THEN Undefined
    ELSE MeaningOfText(get_tokens(expr_cells[index]), path \cup {index})

AllDefined == \A index \in DOMAIN expr_cells : MeaningOfCell(index, {})[1]

\* C14: on a grid without random and randbetween the outcome is that of
\* the grid alone, whatever the order of the top-level loop: the run
\* completes when every formula has a value and fails otherwise, and on
\* completion every formula cell holds the value of its formula.
OrderIndependent ==
    NoRandom =>
        /\ status = "running" => CanProceed
        /\ AllDefined => status \in {"running", "done"}
        /\ ~AllDefined => status # "done"
        /\ status = "done" =>
              \A index \in DOMAIN expr_cells :
                  /\ index \in DOMAIN value_cells
                  /\ value_cells[index].computed
                  /\ value_cells[index].num = MeaningOfCell(index, {})[2]

\* C14, witness: a grid without random and randbetween has completed after
\* a top-level loop that took its formula cells out of ascending order.
CompletedOutOfOrder ==
    /\ status = "done"
    /\ NoRandom
    /\ Len(topOrder) >= 2
    /\ \E i \in 1..(Len(topOrder) - 1) : IndexLess(topOrder[i + 1], topOrder[i])

-----------------------------------------------------------------------------
(* The codec, checked under SpecCodec.                                     *)

\* C5: text_to_number(number_to_text(i)) = i for every index i, and
\* number_to_text(text_to_number(L)) = L for every upper-case label L.
CodecRoundTrip == Len(res) = 2 => res[2] = arg[2]

-----------------------------------------------------------------------------
(* Arithmetic, checked under SpecArith.  The conventional reading of a     *)
(* token sequence: its root is the last binary + or - outside parentheses, *)
(* else the last binary * or /, else a leading sign applied to the rest,   *)
(* else a parenthesised reading, else a number.                            *)

CountBefore(toks, i, type) == Cardinality({j \in 1..(i - 1) : toks[j].type = type})

BinaryAt(toks, types) ==
    {i \in 2..Len(toks) :
        /\ toks[i].type \in types
        /\ toks[i - 1].type \in {"Number", "ClosingParenthese"}
        /\ CountBefore(toks, i, "OpeningParenthese")
             = CountBefore(toks, i, "ClosingParenthese")}

Last(S) == CHOOSE m \in S : \A k \in S : k <= m

RootAt(toks) ==
    IF BinaryAt(toks, {"Plus", "Minus"}) # {} THEN Last(BinaryAt(toks, {"Plus", "Minus"}))
    ELSE IF BinaryAt(toks, {"Star", "Slash"}) # {}
    THEN Last(BinaryAt(toks, {"Star", "Slash"}))
    ELSE 0

ReadingOf(type, l, r) ==
    IF ~l[1] \/ ~r[1] THEN <<FALSE, NaN>>
    ELSE CASE type = "Plus"  -> <<TRUE, FAdd(l[2], r[2])>>
           [] type = "Minus" -> <<TRUE, FAdd(l[2], FNeg(r[2]))>>
           [] type = "Star"  -> <<TRUE, FMul(l[2], r[2])>>
           [] type = "Slash" -> <<TRUE, FDiv(l[2], r[2])>>

SignedReading(type, e) ==
    IF ~e[1] THEN e ELSE IF type = "Minus" THEN <<TRUE, FNeg(e[2])>> ELSE e

\* <<the tokens have a conventional reading, its value>>
RECURSIVE Conventional(_)
Conventional(toks) ==
    IF toks = <<>> THEN <<FALSE, NaN>>
    ELSE IF RootAt(toks) # 0
    THEN ReadingOf(toks[RootAt(toks)].type,
                   Conventional(SubSeq(toks, 1, RootAt(toks) - 1)),
                   Conventional(SubSeq(toks, RootAt(toks) + 1, Len(toks))))
    ELSE IF toks[1].type \in {"Plus", "Minus"}
    THEN SignedReading(toks[1].type, Conventional(Tail(toks)))
    ELSE IF toks[1].type = "OpeningParenthese" /\ toks[Len(toks)].type = "ClosingParenthese"
    THEN Conventional(SubSeq(toks, 2, Len(toks) - 1))
    ELSE IF Len(toks) = 1 /\ toks[1].type = "Number" THEN <<TRUE, toks[1].literal>>
    ELSE <<FALSE, NaN>>

ResultValue == CellValue(value_cells[CellIndex(0, 0)])

-----------------------------------------------------------------------------
(* The builtins, checked under SpecCall.                                   *)

\* C9: a name the scanner makes a Function token of never reaches the arm
\* of the evaluator for unknown function names.
FunctionTokensDispatch ==
    (\E t \in Range(get_tokens(Tail(input)).tokens) : t.type = "Function")
        => errinfo.msg # UnknownFunction

RECURSIVE Total(_)
Total(ints) == IF ints = <<>> THEN 0 ELSE Head(ints) + Total(Tail(ints))

Largest(ints) == CHOOSE m \in Range(ints) : \A k \in Range(ints) : k <= m

Smallest(ints) == CHOOSE m \in Range(ints) : \A k \in Range(ints) : m <= k

Fails(kind) == status \in {"running", kind}

Returns(v) == status \in {"running", "done"} /\ (status = "done" => ResultValue = v)

\* the quotient total / count, as an f32 of the model
IsQuotient(v, total, count) == v[2] > 0 /\ v[1] * count = total * v[2]

\* C10: on integer arguments sum, average, max, min and if return what the
\* table states, and the calls with a wrong number of arguments or an
\* empty range fail with ArityError and RangeError.
BuiltinsAsTabled ==
    LET ints == arg.ints
        n == Len(arg.ints)
    IN  /\ status = "running" => CanProceed
        /\ arg.name = FnSum => Returns(FInt(Total(ints)))
        /\ arg.name = FnAverage =>
              IF n = 0 THEN Fails("ArityError")
              ELSE /\ status \in {"running", "done"}
                   /\ status = "done" => IsQuotient(ResultValue, Total(ints), n)
        /\ arg.name = FnMax =>
              IF n = 0 THEN Fails("ArityError") ELSE Returns(FInt(Largest(ints)))
        /\ arg.name = FnMin =>
              IF n = 0 THEN Fails("ArityError") ELSE Returns(FInt(Smallest(ints)))
        /\ arg.name = FnIf =>
              IF n # 3 THEN Fails("ArityError")
              ELSE Returns(FInt(IF ints[1] # 0 THEN ints[2] ELSE ints[3]))
        /\ arg.name = FnRandbetween =>
              IF n # 2 THEN Fails("ArityError")
              ELSE IF ints[1] >= ints[2] THEN Fails("RangeError")
              ELSE status \in {"running", "done"}

\* C10, witness: average(3, 0, -2) has returned 1/3.
ThirdComputed ==
    /\ arg.name = FnAverage
    /\ arg.ints = <<3, 0, 0 - 2>>
    /\ status = "done"
    /\ ResultValue = <<1, 3>>

-----------------------------------------------------------------------------
(* The scanner on a reference, checked under SpecRef.                      *)

\* C11: the address in the CellRef token of <letters><digits> has the value
\* of the digits as its row and the index of the letters as its column,
\* rows and columns being those of the grid (line, field).
RefIsRowOfDigits ==
    res # <<>> =>
        /\ Len(res) = 1
        /\ res[1].type = "CellRef"
        /\ res[1].literal = CellIndex(ParseUsize(arg.digits), text_to_number(arg.letters))

-----------------------------------------------------------------------------
(* Function calls, checked under SpecPieces.  The grammar of formulas as a *)
(* recogniser on token sequences: each rule, entered at position i, gives  *)
(* the position after what it derives, or 0 when it derives nothing.       *)

TypeAt(toks, i) == IF i >= 1 /\ i <= Len(toks) THEN toks[i].type ELSE "none"

RECURSIVE GExpression(_, _), GTermRest(_, _), GFactor(_, _), GFactorRest(_, _),
          GUnary(_, _), GPrimary(_, _), GArgsRest(_, _)

GExpression(toks, i) == GTermRest(toks, GFactor(toks, i))

GTermRest(toks, j) ==
    IF j = 0 THEN 0
    ELSE IF TypeAt(toks, j) \in {"Plus", "Minus"}
    THEN GTermRest(toks, GFactor(toks, j + 1))
    ELSE j

GFactor(toks, i) == GFactorRest(toks, GUnary(toks, i))

GFactorRest(toks, j) ==
    IF j = 0 THEN 0
    ELSE IF TypeAt(toks, j) \in {"Star", "Slash"}
    THEN GFactorRest(toks, GUnary(toks, j + 1))
    ELSE j

GUnary(toks, i) ==
    IF TypeAt(toks, i) \in {"Plus", "Minus"} THEN GUnary(toks, i + 1)
    ELSE GPrimary(toks, i)

GClosed(toks, j) == IF j # 0 /\ TypeAt(toks, j) = "ClosingParenthese" THEN j + 1 ELSE 0

GArgsRest(toks, j) ==
    IF j = 0 THEN 0
    ELSE IF TypeAt(toks, j) = "ClosingParenthese" THEN j + 1
    ELSE IF TypeAt(toks, j) = "Comma" THEN GArgsRest(toks, GExpression(toks, j + 1))
    ELSE 0

GPrimary(toks, i) ==
    CASE TypeAt(toks, i) \in {"Number", "CellRef"} -> i + 1
      [] TypeAt(toks, i) = "OpeningParenthese" -> GClosed(toks, GExpression(toks, i + 1))
      [] TypeAt(toks, i) = "Function" ->
            IF TypeAt(toks, i + 1) # "OpeningParenthese" THEN 0
            ELSE IF TypeAt(toks, i + 2) = "ClosingParenthese" THEN i + 3
            ELSE GArgsRest(toks, GExpression(toks, i + 2))
      [] OTHER -> 0

Derivable(toks) == GExpression(toks, 1) # 0

\* a Function token that no '(' follows
NoParenthesisAfterName(toks) ==
    \E i \in 1..Len(toks) :
        toks[i].type = "Function" /\ TypeAt(toks, i + 1) # "OpeningParenthese"

\* the '(' at position i is closed somewhere
ClosedLater(toks, i) ==
    \E j \in (i + 1)..Len(toks) :
        /\ toks[j].type = "ClosingParenthese"
        /\ CountBefore(toks, j + 1, "OpeningParenthese") - CountBefore(toks, i, "OpeningParenthese")
             = CountBefore(toks, j + 1, "ClosingParenthese") - CountBefore(toks, i, "ClosingParenthese")

\* an argument list whose ')' is missing
UnclosedArguments(toks) ==
    \E i \in 1..Len(toks) :
        /\ toks[i].type = "Function"
        /\ TypeAt(toks, i + 1) = "OpeningParenthese"
        /\ ~ClosedLater(toks, i + 1)

\* a token other than Comma where a Comma makes the sequence derivable
WrongSeparator(toks) ==
    \E i \in 1..Len(toks) :
        /\ toks[i].type # "Comma"
        /\ Derivable([toks EXCEPT ![i] = Token("Comma", <<",">>, <<>>)])

IllFormedCall(toks) ==
    /\ ~Derivable(toks)
    /\ \/ NoParenthesisAfterName(toks)
       \/ UnclosedArguments(toks)
       \/ WrongSeparator(toks)

\* C12: a formula with a call that is not of the form
\* FUNCTION ( [expression (, expression)*] ) ends in ParseError and is
\* never evaluated.
IllFormedCallsFail ==
    (get_tokens(arg).err = "" /\ IllFormedCall(get_tokens(arg).tokens)) =>
        /\ status \in {"running", "ParseError"}
        /\ evaluations[CellIndex(0, 0)] = 0

=============================================================================
